---- MODULE Spec2Model ----
(***************************************************************************)
(* The gameplay store of Liquid-Left (zustand store, useGameStore): the    *)
(* level state, the puzzle-graph engine (drag / tether / sequence          *)
(* connections), the mechanic resolvers and the rain interval.             *)
(*                                                                         *)
(* Conventions                                                             *)
(*  - null is NULL; a JavaScript `undefined` read out of an array is NULL  *)
(*    too (both are falsy, and the code only tests them with `!`).         *)
(*  - node ids are strings; feature ids are tuples of strings, so that the *)
(*    template `frag-${id}-${i}` is a concatenation: <<"frag">> \o id \o   *)
(*    <<i>>.                                                               *)
(*  - positions are [x, y, z] in halves (0.5 is 1); the random jitter of   *)
(*    decorative placements is not modelled, no operation reads it.        *)
(*  - rainLevel is the number of 0.04 steps added since the level started. *)
(*  - intervals holds the live setInterval callbacks of triggerRain, each  *)
(*    with its closure's hasTriggeredExtinguish latch; extinguishCount     *)
(*    counts the calls of playSunExtinguish since the last startLevel.     *)
(*  - lastOp is a history variable: the last store call, its argument and, *)
(*    for completeConnection, the draggingNodeId it found.                 *)
(***************************************************************************)
EXTENDS Integers, Sequences, FiniteSets, TLC

VARIABLES
    currentLevel, interactionMode, narrativeIndex,
    nodes, connections, envFeatures,
    playerPos, cursorWorldPos, isMouseDown, hoveredNodeId, draggingNodeId,
    isInteractiveHover,
    sequenceOrder, nextSequenceIndex, tetheredNodeId,
    bubblesPopped, fragmentsCollected, playerScale, leafHealth,
    rainLevel, isRaining, isLevelComplete,
    intervals, extinguishCount,
    lastOp

vars == << currentLevel, interactionMode, narrativeIndex,
           nodes, connections, envFeatures,
           playerPos, cursorWorldPos, isMouseDown, hoveredNodeId, draggingNodeId,
           isInteractiveHover,
           sequenceOrder, nextSequenceIndex, tetheredNodeId,
           bubblesPopped, fragmentsCollected, playerScale, leafHealth,
           rainLevel, isRaining, isLevelComplete,
           intervals, extinguishCount,
           lastOp >>

\* Fields grouped by the part of the store that writes them.
inputVars == << playerPos, cursorWorldPos, isMouseDown, hoveredNodeId, isInteractiveHover >>
levelVars == << currentLevel, interactionMode, sequenceOrder >>
graphVars == << nodes, connections, nextSequenceIndex >>
mechVars  == << envFeatures, bubblesPopped, fragmentsCollected, playerScale, leafHealth >>
rainVars  == << rainLevel, isRaining, intervals, extinguishCount >>

NULL == "<null>"

(***************************************************************************)
(* Bounds of the model.                                                    *)
(***************************************************************************)
\* Edges a caller adds in a level without the sequence gate.
MaxEdges == 3
\* Value of narrativeIndex up to which advanceNarrative is still called.
MaxNarrative == 2
\* Calls of absorbFragment followed in one level.
MaxAbsorb == 6
\* Rain intervals alive at the same time.
MaxIntervals == 2

(***************************************************************************)
(* Types and level tables.                                                 *)
(***************************************************************************)
LevelType == { "PROLOGUE", "CHAPTER_1", "NAME", "CHEWING", "WIND", "TRAVEL",
               "CONNECTION", "HOME", "SUN" }

Dec == << "0", "1", "2", "3", "4", "5", "6", "7", "8", "9", "10", "11", "12",
          "13", "14", "15", "16", "17", "18", "19" >>

\* Template literal `${i}` for 0 <= i < 20.
Str(i) == Dec[i + 1]

Node(id) == [ id |-> id, connected |-> FALSE ]

Feature(id, type) == [ id |-> id, type |-> type ]

generatePrologueEnv ==
    [ nodes |-> << >>,
      env   |-> [ k \in 1..28 |->
                    IF k % 2 = 1
                    THEN Feature(<< "canal-l", Str((k - 1) \div 2) >>, "FLESH_TUNNEL")
                    ELSE Feature(<< "canal-r", Str((k - 1) \div 2) >>, "FLESH_TUNNEL") ]
                \o << Feature(<< "exit-gate" >>, "EXIT_GATE") >> ]

Level1Ids == << "n1-0", "n1-1", "n1-2", "n1-3", "n1-4", "n1-5" >>

generateLevel1Env ==
    [ nodes |-> [ i \in 1..6 |-> Node(Level1Ids[i]) ],
      env   |-> [ i \in 1..8 |-> Feature(<< "spore", Str(i - 1) >>, "DECORATION") ] ]

generateNameEnv ==
    [ nodes |-> << >>,
      env   |-> [ i \in 1..15 |-> Feature(<< "bubble", Str(i - 1) >>, "BUBBLE") ] ]

generateChewingEnv ==
    [ nodes |-> << >>,
      env   |-> [ i \in 1..20 |-> Feature(<< "fleshball", Str(i - 1) >>, "FLESH_BALL") ] ]

generateWindEnv ==
    [ nodes |-> << >>,
      env   |-> << Feature(<< "wind-emitter" >>, "WIND_EMITTER"),
                   Feature(<< "withered-leaf" >>, "WITHERED_LEAF") >> ]

generateTravelEnv ==
    [ nodes |-> << >>,
      env   |-> << Feature(<< "orb-happy" >>, "EMOTION_ORB"),
                   Feature(<< "orb-angry" >>, "EMOTION_ORB"),
                   Feature(<< "orb-envy" >>, "EMOTION_ORB"),
                   Feature(<< "orb-tear" >>, "EMOTION_ORB") >> ]

generateConnectionEnv ==
    [ nodes |-> << Node("n2-low-1"), Node("n2-low-2"), Node("n2-mid"),
                   Node("n2-high-1"), Node("n2-high-2") >>,
      env   |-> << Feature(<< "plat-upper" >>, "ORGANIC_PLATFORM") >> ]

generateHomeEnv ==
    [ nodes |-> << >>,
      env   |-> << Feature(<< "lake" >>, "LAKE") >> ]

generateSunEnv ==
    [ nodes |-> << >>,
      env   |-> << Feature(<< "the-sun" >>, "SUN"),
                   Feature(<< "mushroom" >>, "MUSHROOM") >> ]

\* [x, y, z] in halves.
START_POSITIONS(level) ==
    CASE level = "PROLOGUE"   -> << 0, 1, -24 >>
      [] level = "CHAPTER_1"  -> << 0, 1, 16 >>
      [] level = "NAME"       -> << 0, 1, 0 >>
      [] level = "CHEWING"    -> << 0, 1, -16 >>
      [] level = "WIND"       -> << 0, 1, 16 >>
      [] level = "TRAVEL"     -> << 0, 1, 0 >>
      [] level = "CONNECTION" -> << 0, 1, 16 >>
      [] level = "HOME"       -> << 0, 1, 10 >>
      [] level = "SUN"        -> << 0, 1, 10 >>

\* The switch of startLevel: the generator's result for the level.
genResult(level) ==
    CASE level = "PROLOGUE"   -> generatePrologueEnv
      [] level = "CHAPTER_1"  -> generateLevel1Env
      [] level = "NAME"       -> generateNameEnv
      [] level = "CHEWING"    -> generateChewingEnv
      [] level = "WIND"       -> generateWindEnv
      [] level = "TRAVEL"     -> generateTravelEnv
      [] level = "CONNECTION" -> generateConnectionEnv
      [] level = "HOME"       -> generateHomeEnv
      [] level = "SUN"        -> generateSunEnv

\* The switch of startLevel: mode is 'LURE' unless the case sets it.
mode(level) ==
    CASE level = "PROLOGUE" -> "SLINGSHOT"
      [] level = "HOME"     -> "OBSERVER"
      [] level = "SUN"      -> "CLICK"
      [] OTHER              -> "LURE"

\* The switch of startLevel: seq is [] unless the level is CHAPTER_1.
seq(level) ==
    IF level = "CHAPTER_1"
    THEN [ i \in 1..Len(genResult(level).nodes) |-> genResult(level).nodes[i].id ]
    ELSE << >>

(***************************************************************************)
(* Helpers of the state.                                                   *)
(***************************************************************************)
Range(s) == { s[i] : i \in DOMAIN s }

NodeIds == { nodes[i].id : i \in DOMAIN nodes }

\* new Set(conns.flat())
connectedSet(conns) == { c[1] : c \in Range(conns) } \cup { c[2] : c \in Range(conns) }

\* A store call as lastOp records it; drag is the draggingNodeId the call found
\* (recorded for completeConnection, which clears it). For resetGame, which takes
\* no argument, arg is the level it was called in; for a tick of the rain, the
\* position of its interval among the live ones.
Op(name, arg) == [ op |-> name, arg |-> arg, drag |-> NULL ]

(***************************************************************************)
(* Initial state: the object handed to create().                           *)
(***************************************************************************)
Init ==
    /\ currentLevel = "PROLOGUE"
    /\ interactionMode = "SLINGSHOT"
    /\ narrativeIndex = 0
    /\ nodes = << >>
    /\ connections = << >>
    /\ envFeatures = << >>
    /\ playerPos = << 0, 1, -24 >>
    /\ cursorWorldPos = << 0, 0, 0 >>
    /\ isMouseDown = FALSE
    /\ hoveredNodeId = NULL
    /\ draggingNodeId = NULL
    /\ isInteractiveHover = FALSE
    /\ sequenceOrder = << >>
    /\ nextSequenceIndex = 0
    /\ tetheredNodeId = NULL
    /\ bubblesPopped = 0
    /\ fragmentsCollected = 0
    /\ playerScale = 1
    /\ leafHealth = 0
    /\ rainLevel = 0
    /\ isRaining = FALSE
    /\ isLevelComplete = FALSE
    /\ intervals = << >>
    /\ extinguishCount = 0
    /\ lastOp = Op("create", NULL)

(***************************************************************************)
(* Ids a caller passes, per level: the level's node ids and ids of no node.*)
(***************************************************************************)
\* startDragConnection(id)
DragIds(level) ==
    CASE level = "CHAPTER_1"  -> Range(Level1Ids) \cup { "ghost" }
      [] level = "CONNECTION" -> { "n2-low-1" }
      [] OTHER                -> { "ghost", "ghost-2" }

\* setTetheredNode(id)
TetherIds(level) ==
    CASE level = "CHAPTER_1"  -> { "n1-0" }
      [] level = "CONNECTION" -> { "n2-low-1", "n2-high-1", NULL }
      [] OTHER                -> { "ghost" }

\* setHoveredNode(id): a node of the level under the pointer, or null.
HoverIds(level) ==
    CASE level = "CHAPTER_1"  -> { "n1-0", NULL }
      [] OTHER                -> { NULL }

\* completeConnection(targetId)
TargetIds(level) ==
    CASE level = "CHAPTER_1"  -> Range(Level1Ids) \cup { "ghost" }
      [] level = "CONNECTION" -> { "n2-low-1", "n2-low-2", "n2-mid", "n2-high-1",
                                   "n2-high-2", "ghost" }
      [] OTHER                -> { "ghost", "ghost-2" }

(***************************************************************************)
(* Input setters.                                                          *)
(***************************************************************************)
startDragConnection(id) ==
    /\ draggingNodeId' = id
    /\ lastOp' = Op("startDragConnection", id)
    /\ UNCHANGED << inputVars, levelVars, graphVars, mechVars, rainVars,
                    narrativeIndex, tetheredNodeId, isLevelComplete >>

cancelDrag ==
    /\ draggingNodeId' = NULL
    /\ lastOp' = Op("cancelDrag", NULL)
    /\ UNCHANGED << inputVars, levelVars, graphVars, mechVars, rainVars,
                    narrativeIndex, tetheredNodeId, isLevelComplete >>

setTetheredNode(id) ==
    /\ tetheredNodeId' = id
    /\ lastOp' = Op("setTetheredNode", id)
    /\ UNCHANGED << inputVars, levelVars, graphVars, mechVars, rainVars,
                    narrativeIndex, draggingNodeId, isLevelComplete >>

setCursorWorldPos(pos) ==
    /\ cursorWorldPos' = pos
    /\ lastOp' = Op("setCursorWorldPos", pos)
    /\ UNCHANGED << playerPos, isMouseDown, hoveredNodeId, isInteractiveHover,
                    levelVars, graphVars, mechVars, rainVars,
                    narrativeIndex, draggingNodeId, tetheredNodeId, isLevelComplete >>

updatePlayerPos(pos) ==
    /\ playerPos' = pos
    /\ lastOp' = Op("updatePlayerPos", pos)
    /\ UNCHANGED << cursorWorldPos, isMouseDown, hoveredNodeId, isInteractiveHover,
                    levelVars, graphVars, mechVars, rainVars,
                    narrativeIndex, draggingNodeId, tetheredNodeId, isLevelComplete >>

setMouseDown(isDown) ==
    /\ isMouseDown' = isDown
    /\ lastOp' = Op("setMouseDown", isDown)
    /\ UNCHANGED << playerPos, cursorWorldPos, hoveredNodeId, isInteractiveHover,
                    levelVars, graphVars, mechVars, rainVars,
                    narrativeIndex, draggingNodeId, tetheredNodeId, isLevelComplete >>

setHoveredNode(id) ==
    /\ hoveredNodeId' = id
    /\ lastOp' = Op("setHoveredNode", id)
    /\ UNCHANGED << playerPos, cursorWorldPos, isMouseDown, isInteractiveHover,
                    levelVars, graphVars, mechVars, rainVars,
                    narrativeIndex, draggingNodeId, tetheredNodeId, isLevelComplete >>

setInteractiveHover(isHover) ==
    /\ isInteractiveHover' = isHover
    /\ lastOp' = Op("setInteractiveHover", isHover)
    /\ UNCHANGED << playerPos, cursorWorldPos, isMouseDown, hoveredNodeId,
                    levelVars, graphVars, mechVars, rainVars,
                    narrativeIndex, draggingNodeId, tetheredNodeId, isLevelComplete >>

advanceNarrative ==
    /\ narrativeIndex < MaxNarrative
    /\ narrativeIndex' = narrativeIndex + 1
    /\ lastOp' = Op("advanceNarrative", NULL)
    /\ UNCHANGED << inputVars, levelVars, graphVars, mechVars, rainVars,
                    draggingNodeId, tetheredNodeId, isLevelComplete >>

(***************************************************************************)
(* completeConnection(targetId).                                           *)
(***************************************************************************)
\* `!x` of a string | null | undefined.
Falsy(x) == x = NULL \/ x = ""

\* let sourceId = draggingNodeId; if (currentLevel === 'CONNECTION') sourceId = tetheredNodeId;
sourceIdOf(level, dragging, tethered) ==
    IF level = "CONNECTION" THEN tethered ELSE dragging

\* Variant of noSource: the `!sourceId` test is missing.
noSourceUnchecked(sourceId, targetId) == sourceId = targetId

\* if (!sourceId || sourceId === targetId) { set({ draggingNodeId: null }); return; }
noSource(sourceId, targetId) == Falsy(sourceId) \/ sourceId = targetId

\* Variant of exists: only the pair in the order given is looked for.
existsDirected(conns, sourceId, targetId) ==
    \E i \in DOMAIN conns : conns[i][1] = sourceId /\ conns[i][2] = targetId

\* connections.some(c => (c[0] === sourceId && c[1] === targetId) || (c[0] === targetId && c[1] === sourceId))
exists(conns, sourceId, targetId) ==
    \E i \in DOMAIN conns :
        \/ conns[i][1] = sourceId /\ conns[i][2] = targetId
        \/ conns[i][1] = targetId /\ conns[i][2] = sourceId

\* Variant of at: the entry one place further on is read.
atShifted(order, i) == IF i + 2 \in DOMAIN order THEN order[i + 2] ELSE NULL

\* sequenceOrder[i]: undefined (NULL) out of range.
at(order, i) == IF i + 1 \in DOMAIN order THEN order[i + 1] ELSE NULL

\* Variant of isValid: only the pair in sequence order is valid.
isValidDirected(sourceId, targetId, currentSource, currentTarget) ==
    sourceId = currentSource /\ targetId = currentTarget

isValid(sourceId, targetId, currentSource, currentTarget) ==
    \/ sourceId = currentSource /\ targetId = currentTarget
    \/ sourceId = currentTarget /\ targetId = currentSource

\* Variant of sequenceRejects: the gate lets every pair through.
sequenceRejectsNothing(level, order, index, sourceId, targetId) == FALSE

\* The CHAPTER_1 gate: both returns of the `if (currentLevel === 'CHAPTER_1')` block.
sequenceRejects(level, order, index, sourceId, targetId) ==
    /\ level = "CHAPTER_1"
    /\ LET currentSource == at(order, index)
           currentTarget == at(order, index + 1)
       IN  \/ Falsy(currentSource)
           \/ Falsy(currentTarget)
           \/ ~isValid(sourceId, targetId, currentSource, currentTarget)

newConnections(conns, sourceId, targetId) == Append(conns, << sourceId, targetId >>)

\* Variant of newNodes: only the source is flagged.
newNodesSourceOnly(ns, sourceId, targetId) ==
    [ i \in DOMAIN ns |->
        IF ns[i].id = sourceId
        THEN [ ns[i] EXCEPT !.connected = TRUE ]
        ELSE ns[i] ]

newNodes(ns, sourceId, targetId) ==
    [ i \in DOMAIN ns |->
        IF ns[i].id = sourceId \/ ns[i].id = targetId
        THEN [ ns[i] EXCEPT !.connected = TRUE ]
        ELSE ns[i] ]

\* connectedSet.size >= nodes.length && nodes.length > 0
isComplete(conns, ns) ==
    Cardinality(connectedSet(conns)) >= Len(ns) /\ Len(ns) > 0

\* Variant of newSeqIndex: the index is bumped in every level.
newSeqIndexAnyLevel(level, index) == index + 1

\* let newSeqIndex = nextSequenceIndex; if (currentLevel === 'CHAPTER_1') newSeqIndex++;
newSeqIndex(level, index) == IF level = "CHAPTER_1" THEN index + 1 ELSE index

\* Whether completeConnection(targetId) reaches the set() that adds the edge.
accepts(targetId) ==
    LET sourceId == sourceIdOf(currentLevel, draggingNodeId, tetheredNodeId)
    IN  /\ ~noSource(sourceId, targetId)
        /\ ~exists(connections, sourceId, targetId)
        /\ ~sequenceRejects(currentLevel, sequenceOrder, nextSequenceIndex, sourceId, targetId)

completeConnection(targetId) ==
    LET sourceId == sourceIdOf(currentLevel, draggingNodeId, tetheredNodeId)
    IN  /\ accepts(targetId) =>
              (currentLevel = "CHAPTER_1" \/ Len(connections) < MaxEdges)
        /\ lastOp' = [ Op("completeConnection", targetId) EXCEPT !.drag = draggingNodeId ]
        /\ draggingNodeId' = NULL
        /\ IF accepts(targetId)
           THEN /\ connections' = newConnections(connections, sourceId, targetId)
                /\ nodes' = newNodes(nodes, sourceId, targetId)
                /\ narrativeIndex' = narrativeIndex + 1
                /\ isLevelComplete' =
                       isComplete(newConnections(connections, sourceId, targetId), nodes)
                /\ nextSequenceIndex' = newSeqIndex(currentLevel, nextSequenceIndex)
           ELSE UNCHANGED << graphVars, narrativeIndex, isLevelComplete >>
        /\ UNCHANGED << inputVars, levelVars, mechVars, rainVars, tetheredNodeId >>

(***************************************************************************)
(* startLevel(level) and resetGame().                                      *)
(***************************************************************************)
\* The set({...}) of startLevel: every field it assigns.
enterLevel(level) ==
    /\ currentLevel' = level
    /\ interactionMode' = mode(level)
    /\ nodes' = genResult(level).nodes
    /\ envFeatures' = genResult(level).env
    /\ connections' = << >>
    /\ playerPos' = START_POSITIONS(level)
    /\ cursorWorldPos' = START_POSITIONS(level)
    /\ isLevelComplete' = FALSE
    /\ narrativeIndex' = 0
    /\ draggingNodeId' = NULL
    /\ sequenceOrder' = seq(level)
    /\ nextSequenceIndex' = 0
    /\ tetheredNodeId' = NULL
    /\ bubblesPopped' = 0
    /\ fragmentsCollected' = 0
    /\ playerScale' = 1
    /\ leafHealth' = 0
    /\ rainLevel' = 0
    /\ isRaining' = FALSE
    /\ isInteractiveHover' = FALSE
    /\ extinguishCount' = 0
    /\ UNCHANGED << isMouseDown, hoveredNodeId, intervals >>

startLevel(level) ==
    /\ enterLevel(level)
    /\ lastOp' = Op("startLevel", level)

\* resetGame: () => get().startLevel('PROLOGUE'), with the level it was called in
\* kept in lastOp.
resetGameSameLevel ==
    /\ enterLevel(currentLevel)
    /\ lastOp' = Op("resetGame", currentLevel)

resetGame ==
    /\ enterLevel("PROLOGUE")
    /\ lastOp' = Op("resetGame", currentLevel)

\* The calls that start a level.
LevelStarts == { "startLevel", "resetGame" }

(***************************************************************************)
(* The puzzle-graph engine: the store driven by level starts, drags,       *)
(* tethers and connection attempts.                                        *)
(***************************************************************************)
StartLevel == \E level \in LevelType : startLevel(level)

ResetGame == resetGame

StartDragConnection == \E id \in DragIds(currentLevel) : startDragConnection(id)

CancelDrag == cancelDrag

SetTetheredNode == \E id \in TetherIds(currentLevel) : setTetheredNode(id)

CompleteConnection == \E targetId \in TargetIds(currentLevel) : completeConnection(targetId)

SetHoveredNode == \E id \in HoverIds(currentLevel) : setHoveredNode(id)

Next ==
    \/ StartLevel
    \/ ResetGame
    \/ SetHoveredNode
    \/ StartDragConnection
    \/ CancelDrag
    \/ SetTetheredNode
    \/ CompleteConnection

Spec == Init /\ [][Next]_vars

(***************************************************************************)
(* Mechanic resolvers.                                                     *)
(***************************************************************************)
\* `frag-${id}-${i}`
FragId(id, i) == << "frag" >> \o id \o << Str(i) >>

\* envFeatures.find(f => f.id === id) finds a feature.
found(env, id) == \E k \in DOMAIN env : env[k].id = id

\* envFeatures.filter(f => f.id !== id)
without(env, id) == SelectSeq(env, LAMBDA f : f.id # id)

\* The three fragments popBubble pushes.
twoFragments(id) == [ i \in 1..2 |-> Feature(FragId(id, i - 1), "FRAGMENT") ]

fragments(id) == [ i \in 1..3 |-> Feature(FragId(id, i - 1), "FRAGMENT") ]

popBubble(id) ==
    /\ lastOp' = Op("popBubble", id)
    /\ IF ~found(envFeatures, id)
       THEN UNCHANGED << envFeatures, bubblesPopped, isInteractiveHover >>
       ELSE /\ envFeatures' = without(envFeatures, id) \o fragments(id)
            /\ bubblesPopped' = bubblesPopped + 1
            /\ isInteractiveHover' = FALSE
    /\ UNCHANGED << playerPos, cursorWorldPos, isMouseDown, hoveredNodeId,
                    levelVars, graphVars, rainVars,
                    fragmentsCollected, playerScale, leafHealth,
                    narrativeIndex, draggingNodeId, tetheredNodeId, isLevelComplete >>

\* const count = fragmentsCollected + 1; const isComplete = count >= 5;
fragmentsComplete(count) == count >= 5

absorbFragment(id) ==
    /\ fragmentsCollected < MaxAbsorb
    /\ lastOp' = Op("absorbFragment", id)
    /\ envFeatures' = without(envFeatures, id)
    /\ fragmentsCollected' = fragmentsCollected + 1
    /\ isLevelComplete' = fragmentsComplete(fragmentsCollected + 1)
    /\ narrativeIndex' = IF fragmentsComplete(fragmentsCollected + 1) THEN 1 ELSE narrativeIndex
    /\ UNCHANGED << inputVars, levelVars, graphVars, rainVars,
                    bubblesPopped, playerScale, leafHealth,
                    draggingNodeId, tetheredNodeId >>

Min(a, b) == IF a <= b THEN a ELSE b

\* Math.min(get().playerScale + amount, 10)
newScaleUnclamped(scale, amount) == scale + amount

newScale(scale, amount) == Min(scale + amount, 10)

\* const isComplete = newScale > 8;
scaleComplete(scale) == scale > 8

growPlayer(amount) ==
    /\ lastOp' = Op("growPlayer", amount)
    /\ playerScale' = newScale(playerScale, amount)
    /\ isLevelComplete' = scaleComplete(newScale(playerScale, amount))
    /\ narrativeIndex' =
           IF scaleComplete(newScale(playerScale, amount)) THEN 1 ELSE narrativeIndex
    /\ UNCHANGED << inputVars, levelVars, graphVars, rainVars,
                    envFeatures, bubblesPopped, fragmentsCollected, leafHealth,
                    draggingNodeId, tetheredNodeId >>

\* Math.min(get().leafHealth + amount, 100)
newHealth(health, amount) == Min(health + amount, 100)

healLeaf(amount) ==
    /\ lastOp' = Op("healLeaf", amount)
    /\ leafHealth' = newHealth(leafHealth, amount)
    /\ isLevelComplete' = (newHealth(leafHealth, amount) >= 100)
    /\ UNCHANGED << inputVars, levelVars, graphVars, rainVars,
                    envFeatures, bubblesPopped, fragmentsCollected, playerScale,
                    narrativeIndex, draggingNodeId, tetheredNodeId >>

selectVehicleAny(type) ==
    /\ lastOp' = Op("selectVehicle", type)
    /\ isLevelComplete' = TRUE
    /\ narrativeIndex' = 1
    /\ UNCHANGED << inputVars, levelVars, graphVars, mechVars, rainVars,
                    draggingNodeId, tetheredNodeId >>

selectVehicle(type) ==
    /\ lastOp' = Op("selectVehicle", type)
    /\ IF type = "TEAR"
       THEN /\ isLevelComplete' = TRUE
            /\ narrativeIndex' = 1
       ELSE UNCHANGED << isLevelComplete, narrativeIndex >>
    /\ UNCHANGED << inputVars, levelVars, graphVars, mechVars, rainVars,
                    draggingNodeId, tetheredNodeId >>

(***************************************************************************)
(* triggerRain() and the callback of its setInterval.                      *)
(*                                                                         *)
(* rainLevel is only ever 0 (startLevel) or the previous value + 0.04, so  *)
(* its value is fixed by the number n of additions since the last 0. In    *)
(* IEEE-754 double arithmetic the sum of 500 additions of 0.04 is          *)
(* 19.99999999999975 and that of 501 is 20.03999999999975, so              *)
(* `rainLevel >= 20` first holds at n = 501; the sum of 149 additions is   *)
(* 5.960000000000004 and that of 150 is 6.000000000000004, so              *)
(* `nextLevel > 6.0` first holds at n = 150.                               *)
(***************************************************************************)
\* 20 / 0.04: the number of 0.04 steps in 20.
RainSteps20 == 500

\* Least n whose double sum of n additions of 0.04 is >= 20.
RainStopSteps == 501

\* Least n whose double sum of n additions of 0.04 is > 6.0.
ExtinguishSteps == 150

\* rainLevel >= 20
rainFullExact(level) == level >= RainSteps20

rainFull(level) == level >= RainStopSteps

\* nextLevel > 6.0
aboveSun(level) == level >= ExtinguishSteps

triggerRain ==
    /\ Len(intervals) < MaxIntervals
    /\ isRaining' = TRUE
    /\ isInteractiveHover' = FALSE
    /\ intervals' = Append(intervals, [ hasTriggeredExtinguish |-> FALSE ])
    /\ lastOp' = Op("triggerRain", NULL)
    /\ UNCHANGED << playerPos, cursorWorldPos, isMouseDown, hoveredNodeId,
                    levelVars, graphVars, mechVars, rainLevel, extinguishCount,
                    narrativeIndex, draggingNodeId, tetheredNodeId, isLevelComplete >>

\* clearInterval(interval) for the k-th live interval.
clearedNone(ivs, k) == ivs

cleared(ivs, k) == [ i \in 1..(Len(ivs) - 1) |-> IF i < k THEN ivs[i] ELSE ivs[i + 1] ]

\* One run of the callback of the k-th live interval.
rainTick(k) ==
    /\ k \in DOMAIN intervals
    /\ lastOp' = Op("rainTick", Str(k))
    /\ IF rainFull(rainLevel)
       THEN /\ intervals' = cleared(intervals, k)
            /\ isLevelComplete' = TRUE
            /\ narrativeIndex' = 1
            /\ UNCHANGED << rainLevel, extinguishCount >>
       ELSE /\ rainLevel' = rainLevel + 1
            /\ IF ~intervals[k].hasTriggeredExtinguish /\ aboveSun(rainLevel + 1)
               THEN /\ extinguishCount' = extinguishCount + 1
                    /\ intervals' = [ intervals EXCEPT ![k].hasTriggeredExtinguish = TRUE ]
               ELSE UNCHANGED << extinguishCount, intervals >>
            /\ UNCHANGED << isLevelComplete, narrativeIndex >>
    /\ UNCHANGED << inputVars, levelVars, graphVars, mechVars, isRaining,
                    draggingNodeId, tetheredNodeId >>

(***************************************************************************)
(* The growth mechanics: the store driven by level starts, growPlayer,     *)
(* healLeaf, selectVehicle and advanceNarrative.                           *)
(***************************************************************************)
\* growPlayer(amount)
GrowAmounts == { -4, 4, 9 }

\* healLeaf(amount)
HealAmounts == { -50, 50, 100 }

\* selectVehicle(type): the data.type of the four orbs of TRAVEL.
VehicleTypes == { "HAPPY", "ANGRY", "ENVY", "TEAR" }

\* A negative amount is passed only while the counter is not below its initial
\* value, which keeps the counters in a finite range.
GrowPlayer == \E amount \in GrowAmounts : (amount < 0 => playerScale >= 1) /\ growPlayer(amount)

HealLeaf == \E amount \in HealAmounts : (amount < 0 => leafHealth >= 0) /\ healLeaf(amount)

SelectVehicle == \E type \in VehicleTypes : selectVehicle(type)

AdvanceNarrative == advanceNarrative

NextMechanics ==
    \/ StartLevel
    \/ ResetGame
    \/ GrowPlayer
    \/ HealLeaf
    \/ SelectVehicle
    \/ AdvanceNarrative

SpecMechanics == Init /\ [][NextMechanics]_vars

(***************************************************************************)
(* The fragment mechanics: the store driven by level starts, popBubble,    *)
(* absorbFragment, the interactive-hover flag and advanceNarrative.        *)
(***************************************************************************)
Bubble0 == << "bubble", "0" >>

Bubble1 == << "bubble", "1" >>

\* popBubble(id): two bubbles of NAME, and one of the fragments they leave.
PopIds == { Bubble0, Bubble1, FragId(Bubble0, 0) }

\* absorbFragment(id): the six fragments of those bubbles.
AbsorbIds == { FragId(b, i) : b \in { Bubble0, Bubble1 }, i \in 0..2 }

SetInteractiveHover == \E isHover \in BOOLEAN : setInteractiveHover(isHover)

PopBubble == \E id \in PopIds : popBubble(id)

AbsorbFragment == \E id \in AbsorbIds : absorbFragment(id)

NextFragments ==
    \/ StartLevel
    \/ ResetGame
    \/ SetInteractiveHover
    \/ PopBubble
    \/ AbsorbFragment
    \/ AdvanceNarrative

SpecFragments == Init /\ [][NextFragments]_vars

(***************************************************************************)
(* The input side: the store driven by level starts and the raw setters of *)
(* the rendering / input layer.                                            *)
(***************************************************************************)
\* Positions the input layer reports, [x, y, z] in halves.
PosInputs == { << 0, 0, 0 >>, << 4, 1, -6 >> }

SetCursorWorldPos == \E pos \in PosInputs : setCursorWorldPos(pos)

UpdatePlayerPos == \E pos \in PosInputs : updatePlayerPos(pos)

SetMouseDown == \E isDown \in BOOLEAN : setMouseDown(isDown)

NextInput ==
    \/ StartLevel
    \/ ResetGame
    \/ SetCursorWorldPos
    \/ UpdatePlayerPos
    \/ SetMouseDown
    \/ SetHoveredNode
    \/ SetInteractiveHover

SpecInput == Init /\ [][NextInput]_vars

(***************************************************************************)
(* The rain: the store driven by level starts, triggerRain and the ticks   *)
(* of the live intervals.                                                  *)
(***************************************************************************)
TriggerRain == triggerRain

RainTick == \E k \in DOMAIN intervals : rainTick(k)

NextRain ==
    \/ StartLevel
    \/ ResetGame
    \/ TriggerRain
    \/ RainTick

SpecRain == Init /\ [][NextRain]_vars

\* setInterval(..., 50): while an interval is live the event loop keeps running
\* its callback.
FairTicks == \A k \in 1..MaxIntervals : WF_vars(rainTick(k))

SpecRainFair == Init /\ [][NextRain]_vars /\ FairTicks

(***************************************************************************)
(* Properties of the puzzle-graph engine.                                  *)
(***************************************************************************)
\* Every field of the store (all variables but the history variable).
store == << currentLevel, interactionMode, narrativeIndex,
            nodes, connections, envFeatures,
            playerPos, cursorWorldPos, isMouseDown, hoveredNodeId, draggingNodeId,
            isInteractiveHover,
            sequenceOrder, nextSequenceIndex, tetheredNodeId,
            bubblesPopped, fragmentsCollected, playerScale, leafHealth,
            rainLevel, isRaining, isLevelComplete >>

Pair(c) == { c[1], c[2] }

NoDuplicatePair ==
    \A i, j \in DOMAIN connections : i # j => Pair(connections[i]) # Pair(connections[j])

\* C2: no two entries of connections hold the same unordered pair of node ids, and
\* a step that does not start a level keeps every edge that was in connections.
C2_NoDuplicateNoRemoval ==
    /\ []NoDuplicatePair
    /\ [][lastOp'.op \notin LevelStarts => Range(connections) \subseteq Range(connections')]_vars

\* C2 witness: in the tether level a completeConnection was rejected because the
\* pair was already connected in the opposite order, and the edge is still there.
C2_Witness ==
    /\ currentLevel = "CONNECTION"
    /\ lastOp.op = "completeConnection"
    /\ ~Falsy(tetheredNodeId)
    /\ << lastOp.arg, tetheredNodeId >> \in Range(connections)
    /\ Pair(connections[Len(connections)]) # { lastOp.arg, tetheredNodeId }

\* C3 as claimed: both ids of every entry of connections are ids of nodes of the
\* current node list.
C3_ConnectionsReferenceNodes ==
    \A c \in Range(connections) : c[1] \in NodeIds /\ c[2] \in NodeIds

SequenceIndexInRange ==
    sequenceOrder # << >> => nextSequenceIndex <= Len(sequenceOrder) - 1

SequenceIndexStep ==
    lastOp'.op \notin LevelStarts =>
        \/ nextSequenceIndex' = nextSequenceIndex
        \/ /\ nextSequenceIndex' = nextSequenceIndex + 1
           /\ lastOp'.op = "completeConnection"
           /\ currentLevel = "CHAPTER_1"
           /\ Len(connections') = Len(connections) + 1

\* C4: within a level nextSequenceIndex never decreases and changes only by +1, on
\* a completeConnection that adds an edge in CHAPTER_1; and it is at most
\* sequenceOrder.length - 1 whenever sequenceOrder is not empty.
C4_SequenceIndex ==
    /\ []SequenceIndexInRange
    /\ [][SequenceIndexStep]_vars

\* C4 witness: the whole sequence was connected, and a further attempt left the
\* index at sequenceOrder.length - 1.
C4_Witness ==
    /\ currentLevel = "CHAPTER_1"
    /\ nextSequenceIndex = Len(sequenceOrder) - 1
    /\ Len(connections) = 5
    /\ lastOp.op = "completeConnection"
    /\ ~Falsy(lastOp.drag)
    /\ lastOp.arg \notin Pair(connections[5])

\* Whether {s, t} is the pair the sequence expects at index i.
ExpectedPair(s, t, i) ==
    /\ i + 2 <= Len(sequenceOrder)
    /\ { s, t } = { sequenceOrder[i + 1], sequenceOrder[i + 2] }

\* C5: in CHAPTER_1, completeConnection(targetId) with dragged node s adds the edge
\* and bumps nextSequenceIndex by 1 if {s, targetId} is the expected pair at
\* nextSequenceIndex, and otherwise leaves connections and nextSequenceIndex alone.
C5_SequenceGate ==
    [][ (currentLevel = "CHAPTER_1" /\ lastOp'.op = "completeConnection") =>
            IF ExpectedPair(draggingNodeId, lastOp'.arg, nextSequenceIndex)
            THEN /\ connections' = Append(connections, << draggingNodeId, lastOp'.arg >>)
                 /\ nextSequenceIndex' = nextSequenceIndex + 1
            ELSE /\ connections' = connections
                 /\ nextSequenceIndex' = nextSequenceIndex ]_vars

\* C5 witness: n1-0,n1-1 was accepted at index 0 (in either order), and then the
\* out-of-order pair n1-1,n1-3 was rejected at index 1.
C5_Witness ==
    /\ currentLevel = "CHAPTER_1"
    /\ lastOp = [ op |-> "completeConnection", arg |-> "n1-3", drag |-> "n1-1" ]
    /\ connections = << << "n1-1", "n1-0" >> >>
    /\ nextSequenceIndex = 1

\* C6 as claimed: in the tether level isLevelComplete is true exactly when every
\* node id appears in at least one edge.
C6_CompleteIffAllNodesCovered ==
    currentLevel = "CONNECTION" =>
        (isLevelComplete <=> NodeIds \subseteq connectedSet(connections))

\* C7: completeConnection with no active drag and no tether changes no field of
\* the store.
C7_NoSourceNoOp ==
    [][ (lastOp'.op = "completeConnection" /\ draggingNodeId = NULL /\ tetheredNodeId = NULL)
            => UNCHANGED store ]_vars

\* C7 witness: such a call was made in a level that already holds an edge.
C7_Witness ==
    /\ lastOp.op = "completeConnection"
    /\ lastOp.drag = NULL
    /\ tetheredNodeId = NULL
    /\ connections # << >>

\* C10 as claimed: right after startLevel(level) every transient field has its
\* initial value and currentLevel is level.
C10_StartLevelResetsAll ==
    lastOp.op = "startLevel" =>
        /\ currentLevel = lastOp.arg
        /\ connections = << >>
        /\ draggingNodeId = NULL /\ tetheredNodeId = NULL /\ hoveredNodeId = NULL
        /\ isInteractiveHover = FALSE
        /\ nextSequenceIndex = 0 /\ narrativeIndex = 0
        /\ bubblesPopped = 0 /\ fragmentsCollected = 0
        /\ playerScale = 1 /\ leafHealth = 0
        /\ rainLevel = 0 /\ isRaining = FALSE
        /\ isLevelComplete = FALSE
        /\ \A i \in DOMAIN nodes : nodes[i].connected = FALSE

(***************************************************************************)
(* Properties of the level flags and counters.                             *)
(***************************************************************************)
\* C1 as claimed: isLevelComplete is false right after startLevel, and no step
\* other than a level start takes it from true back to false.
C1_CompleteNeverReverts ==
    /\ [](lastOp.op = "startLevel" => ~isLevelComplete)
    /\ [][(lastOp'.op \notin LevelStarts /\ isLevelComplete) => isLevelComplete']_vars

\* C8 as claimed: 1 <= playerScale <= 10, 0 <= leafHealth <= 100 and
\* 0 <= rainLevel <= 20 (in 0.04 steps) in every reachable state.
C8_CountersInRange ==
    /\ 1 <= playerScale /\ playerScale <= 10
    /\ 0 <= leafHealth /\ leafHealth <= 100
    /\ 0 <= rainLevel /\ rainLevel <= RainSteps20

\* C9 as claimed: no step other than a level start lowers playerScale, leafHealth
\* or rainLevel.
C9_CountersNeverDecrease ==
    [][ lastOp'.op \notin LevelStarts =>
            /\ playerScale' >= playerScale
            /\ leafHealth' >= leafHealth
            /\ rainLevel' >= rainLevel ]_vars

(***************************************************************************)
(* Properties of resetGame.                                                *)
(***************************************************************************)
\* C11: right after resetGame(), whatever level and state it was called in,
\* currentLevel is PROLOGUE, bubblesPopped, fragmentsCollected, leafHealth and
\* rainLevel are 0, playerScale is 1, isRaining is false and connections is empty.
C11_ResetGameReturnsToPrologue ==
    lastOp.op = "resetGame" =>
        /\ currentLevel = "PROLOGUE"
        /\ bubblesPopped = 0 /\ fragmentsCollected = 0
        /\ playerScale = 1 /\ leafHealth = 0
        /\ rainLevel = 0 /\ isRaining = FALSE
        /\ connections = << >>

\* C11 witness: resetGame was called in a level other than PROLOGUE.
C11_Witness ==
    /\ lastOp.op = "resetGame"
    /\ lastOp.arg \in LevelType \ { "PROLOGUE" }

(***************************************************************************)
(* Properties of popBubble.                                                *)
(***************************************************************************)
\* Whether envFeatures holds a feature of this type with this id.
Holds(id, type) == \E f \in Range(envFeatures) : f.id = id /\ f.type = type

HoldsId(id) == \E f \in Range(envFeatures) : f.id = id

\* C12: popBubble(id) on a BUBBLE of envFeatures removes it and nothing else, adds
\* exactly 3 features, all of type FRAGMENT (the count grows by 2), adds 1 to
\* bubblesPopped and clears isInteractiveHover; popBubble(id) when no feature has
\* this id (the bubble was popped before) changes no field of the store.
C12_PopBubble ==
    [][ lastOp'.op = "popBubble" =>
            /\ Holds(lastOp'.arg, "BUBBLE") =>
                   /\ Range(envFeatures) \ Range(envFeatures') =
                          { Feature(lastOp'.arg, "BUBBLE") }
                   /\ Cardinality(Range(envFeatures') \ Range(envFeatures)) = 3
                   /\ \A f \in Range(envFeatures') \ Range(envFeatures) : f.type = "FRAGMENT"
                   /\ Len(envFeatures') = Len(envFeatures) + 2
                   /\ bubblesPopped' = bubblesPopped + 1
                   /\ isInteractiveHover' = FALSE
            /\ ~HoldsId(lastOp'.arg) => UNCHANGED store ]_vars

\* C12 witness: bubble-0 was popped once (14 bubbles and 3 fragments are left),
\* and the last call was a second popBubble('bubble-0') that left the hover flag,
\* set in between, as it was.
C12_Witness ==
    /\ lastOp.op = "popBubble"
    /\ lastOp.arg = Bubble0
    /\ bubblesPopped = 1
    /\ Len(envFeatures) = 17
    /\ ~HoldsId(Bubble0)
    /\ isInteractiveHover

\* C13 as claimed: popBubble(id) when no BUBBLE has this id removes no feature,
\* adds none and leaves bubblesPopped as it was.
C13_PopBubbleOnlyBubbles ==
    [][ (lastOp'.op = "popBubble" /\ ~Holds(lastOp'.arg, "BUBBLE")) =>
            UNCHANGED << envFeatures, bubblesPopped >> ]_vars

(***************************************************************************)
(* Properties of absorbFragment.                                           *)
(***************************************************************************)
\* C14 as claimed: an absorbFragment call on a fragment of envFeatures leaves
\* isLevelComplete equal to (fragmentsCollected >= 5); the call that makes
\* fragmentsCollected 5 sets narrativeIndex to 1; and a call made when
\* fragmentsCollected is already 5 or more leaves isLevelComplete and
\* narrativeIndex as they were.
C14_AbsorbCompletion ==
    [][ (lastOp'.op = "absorbFragment" /\ Holds(lastOp'.arg, "FRAGMENT")) =>
            /\ isLevelComplete' = (fragmentsCollected' >= 5)
            /\ fragmentsCollected' = 5 => narrativeIndex' = 1
            /\ fragmentsCollected >= 5 => UNCHANGED << isLevelComplete, narrativeIndex >> ]_vars

\* C15 as claimed: absorbFragment(id) when no feature of envFeatures has this id
\* leaves envFeatures, fragmentsCollected, isLevelComplete and narrativeIndex as
\* they were.
C15_AbsorbAbsentNoOp ==
    [][ (lastOp'.op = "absorbFragment" /\ ~HoldsId(lastOp'.arg)) =>
            UNCHANGED << envFeatures, fragmentsCollected, isLevelComplete, narrativeIndex >> ]_vars

(***************************************************************************)
(* Properties of growPlayer and selectVehicle.                             *)
(***************************************************************************)
\* C16: growPlayer(a) called with playerScale p sets playerScale to min(p + a, 10)
\* and isLevelComplete to (the new playerScale > 8).
C16_GrowPlayer ==
    [][ lastOp'.op = "growPlayer" =>
            /\ playerScale' = IF playerScale + lastOp'.arg < 10
                              THEN playerScale + lastOp'.arg
                              ELSE 10
            /\ isLevelComplete' = (playerScale' > 8) ]_vars

\* C16 witness: growPlayer(9) left playerScale at the clamp 10, not at 1 + 9 or
\* more, with the level complete.
C16_Witness ==
    /\ lastOp.op = "growPlayer"
    /\ lastOp.arg = 9
    /\ playerScale = 10
    /\ isLevelComplete

\* C20: selectVehicle('TEAR') sets isLevelComplete to true and narrativeIndex to 1;
\* selectVehicle of any other type changes no field of the store.
C20_SelectVehicle ==
    [][ lastOp'.op = "selectVehicle" =>
            IF lastOp'.arg = "TEAR"
            THEN isLevelComplete' = TRUE /\ narrativeIndex' = 1
            ELSE UNCHANGED store ]_vars

\* C20 witness: a losing choice was made in a level that is not complete and
\* whose narrative had been advanced, and both are as they were.
C20_Witness ==
    /\ lastOp.op = "selectVehicle"
    /\ lastOp.arg = "ANGRY"
    /\ ~isLevelComplete
    /\ narrativeIndex = 2

(***************************************************************************)
(* Properties of the rain.                                                 *)
(***************************************************************************)
\* C17: a tick that finds rainLevel < 20 raises it by one 0.04 step; a tick that
\* finds rainLevel >= 20 leaves it, sets isLevelComplete and narrativeIndex = 1 and
\* clears its own interval; once rainLevel >= 20 no step but a level start changes
\* it; and when every interval is cleared no tick runs.
C17_RainTicks ==
    /\ [][ lastOp'.op = "rainTick" =>
               IF rainLevel < RainStopSteps
               THEN rainLevel' = rainLevel + 1
               ELSE /\ rainLevel' = rainLevel
                    /\ isLevelComplete' = TRUE
                    /\ narrativeIndex' = 1
                    /\ Len(intervals') = Len(intervals) - 1 ]_vars
    /\ [][ (rainLevel >= RainStopSteps /\ lastOp'.op \notin LevelStarts) =>
               rainLevel' = rainLevel ]_vars
    /\ [][ intervals = << >> => lastOp'.op # "rainTick" ]_vars

\* C17 witness: the tick that found rainLevel >= 20 has run: the level is
\* complete, narrativeIndex is 1 and no interval is left.
C17_Witness ==
    /\ lastOp.op = "rainTick"
    /\ isRaining
    /\ rainLevel >= RainStopSteps
    /\ isLevelComplete
    /\ narrativeIndex = 1
    /\ intervals = << >>

\* C18 as claimed: in every level the extinguish notification fires at most once,
\* it fires on the tick that takes rainLevel above 6.0 and on no other tick, and it
\* has fired when rainLevel >= 20.
C18_ExtinguishOnce ==
    /\ [](extinguishCount <= 1)
    /\ [](rainLevel >= RainStopSteps => extinguishCount = 1)
    /\ [][ lastOp'.op = "rainTick" =>
               (extinguishCount' # extinguishCount
                    <=> (rainLevel < ExtinguishSteps /\ rainLevel' >= ExtinguishSteps)) ]_vars

\* C19: when from some point on every call is a tick (no further startLevel,
\* resetGame or triggerRain), eventually every interval is cleared for good; the
\* number of live intervals grows by one on triggerRain only and shrinks by one
\* only on a tick that finds rainLevel >= 20, so each interval is cleared once;
\* and a triggerRain is followed by isLevelComplete unless a level start
\* intervenes.
C19_TimersStop ==
    /\ <>[][lastOp'.op = "rainTick"]_vars => <>[](intervals = << >>)
    /\ [][ /\ Len(intervals') > Len(intervals) =>
                  (lastOp'.op = "triggerRain" /\ Len(intervals') = Len(intervals) + 1)
           /\ Len(intervals') < Len(intervals) =>
                  /\ lastOp'.op = "rainTick"
                  /\ rainLevel >= RainStopSteps
                  /\ Len(intervals') = Len(intervals) - 1
           /\ (lastOp'.op = "rainTick" /\ rainLevel >= RainStopSteps) =>
                  Len(intervals') = Len(intervals) - 1 ]_vars
    /\ (lastOp.op = "triggerRain") ~> (isLevelComplete \/ lastOp.op \in LevelStarts)

\* C19 witness: two intervals were live in one level (each fired its own
\* extinguish notification), and both have been cleared with the level complete.
C19_Witness ==
    /\ extinguishCount = 2
    /\ rainLevel >= RainStopSteps
    /\ intervals = << >>
    /\ isLevelComplete

(***************************************************************************)
(* Properties of the narrative index and of rejected connections.          *)
(***************************************************************************)
\* C21 as claimed: no step other than a level start lowers narrativeIndex.
C21_NarrativeNeverDecreases ==
    [][ lastOp'.op \notin LevelStarts => narrativeIndex' >= narrativeIndex ]_vars

\* Every field of the store but draggingNodeId.
storeButDrag == << currentLevel, interactionMode, narrativeIndex,
                   nodes, connections, envFeatures,
                   playerPos, cursorWorldPos, isMouseDown, hoveredNodeId,
                   isInteractiveHover,
                   sequenceOrder, nextSequenceIndex, tetheredNodeId,
                   bubblesPopped, fragmentsCollected, playerScale, leafHealth,
                   rainLevel, isRaining, isLevelComplete >>

\* Whether completeConnection(targetId) with source s is one of the rejected
\* cases: no source, source equal to the target, the unordered pair already
\* connected, or (CHAPTER_1) not the pair the sequence expects.
Rejected(s, targetId) ==
    \/ Falsy(s)
    \/ s = targetId
    \/ \E c \in Range(connections) : Pair(c) = { s, targetId }
    \/ currentLevel = "CHAPTER_1" /\ ~ExpectedPair(s, targetId, nextSequenceIndex)

\* C22: a rejected completeConnection(targetId) sets draggingNodeId to null and
\* changes no other field of the store.
C22_RejectedChangesOnlyDrag ==
    [][ ( /\ lastOp'.op = "completeConnection"
          /\ Rejected(IF currentLevel = "CONNECTION" THEN tetheredNodeId ELSE draggingNodeId,
                      lastOp'.arg) ) =>
            /\ draggingNodeId' = NULL
            /\ UNCHANGED storeButDrag ]_vars

\* C22 witness: in CHAPTER_1, with an edge already accepted, a node was dropped on
\* itself and the drag is cleared.
C22_Witness ==
    /\ currentLevel = "CHAPTER_1"
    /\ lastOp.op = "completeConnection"
    /\ ~Falsy(lastOp.drag)
    /\ lastOp.drag = lastOp.arg
    /\ connections # << >>
    /\ draggingNodeId = NULL

(***************************************************************************)
(* Properties relating nodes, connections and the sequence.                *)
(***************************************************************************)
\* Whether the node id is an endpoint of an entry of conns.
IsEndpoint(id, conns) == \E c \in Range(conns) : id \in Pair(c)

\* C23: a node's connected flag is true exactly when its id is an endpoint of an
\* entry of connections; a step that appends an edge leaves the flags of both its
\* endpoints set; and no step other than a level start clears a flag.
C23_ConnectedIffEndpoint ==
    /\ [](\A i \in DOMAIN nodes : nodes[i].connected <=> IsEndpoint(nodes[i].id, connections))
    /\ [][ Len(connections') = Len(connections) + 1 =>
               \A i \in DOMAIN nodes' :
                   nodes'[i].id \in Pair(connections'[Len(connections')]) => nodes'[i].connected ]_vars
    /\ [][ lastOp'.op \notin LevelStarts =>
               \A i \in DOMAIN nodes :
                   nodes[i].connected => (i \in DOMAIN nodes' /\ nodes'[i].connected) ]_vars

\* C23 witness: in the tether level an edge joins a node to an id that is no node;
\* that node is flagged and another node, on no edge, is not.
C23_Witness ==
    /\ currentLevel = "CONNECTION"
    /\ \E c \in Range(connections) :
           /\ c[2] \notin NodeIds
           /\ \E i \in DOMAIN nodes : nodes[i].id = c[1] /\ nodes[i].connected
    /\ \E i \in DOMAIN nodes : ~nodes[i].connected /\ ~IsEndpoint(nodes[i].id, connections)

\* C25: in CHAPTER_1 the number of connections is nextSequenceIndex, the k-th
\* connection (from 0) joins sequenceOrder[k] and sequenceOrder[k+1], and there
\* are at most 5 connections.
C25_SequencePrefix ==
    currentLevel = "CHAPTER_1" =>
        /\ Len(sequenceOrder) = 6
        /\ Len(connections) = nextSequenceIndex
        /\ Len(connections) <= 5
        /\ \A k \in DOMAIN connections :
               Pair(connections[k]) = { sequenceOrder[k], sequenceOrder[k + 1] }

\* C25 witness: all 5 edges of the path are in, the level is complete, and at
\* least one of them was dragged against the order of the sequence.
C25_Witness ==
    /\ currentLevel = "CHAPTER_1"
    /\ Len(connections) = 5
    /\ nextSequenceIndex = 5
    /\ isLevelComplete
    /\ \E k \in DOMAIN connections : connections[k][1] = sequenceOrder[k + 1]

(***************************************************************************)
(* Properties of rain intervals across level starts.                       *)
(***************************************************************************)
\* C24 as claimed: while triggerRain has not been called since the last level
\* start (isRaining is false), rainLevel is 0 and no tick changes isLevelComplete
\* or narrativeIndex.
C24_StaleTimerHasNoEffect ==
    /\ [](~isRaining => rainLevel = 0)
    /\ [][ (~isRaining /\ lastOp'.op = "rainTick") =>
               UNCHANGED << isLevelComplete, narrativeIndex >> ]_vars

====
